---- MODULE Spec2Model ----
(***************************************************************************)
(* A model of pymake (src/lib/pymake.py): rules are resolved into a        *)
(* dependency graph of requirements (build_dep_graph), the graph is        *)
(* compressed into a list of order sets (build_orders / merge_orders) and  *)
(* the order sets are executed back to front (run_orders / TaskReq.run).   *)
(***************************************************************************)
EXTENDS Integers, Sequences, FiniteSets, TLC

(***************************************************************************)
(* Bounds of the model.                                                    *)
(***************************************************************************)
\* modification times of the files present before make is called: 1..MaxTime
MaxTime == 2
\* depth at which the interpreter gives up a recursion (RecursionError)
RecursionLimit == 6
\* number of calls of make in one behaviour
MaxCalls == 2

\* the target strings of the model
Targets == {"a", "b", "c"}

\* float('nan'); every comparison with it is false
NaN == -1

(***************************************************************************)
(* Rule: templates and their instantiation.                                *)
(***************************************************************************)
\* re.match of the anchored target pattern: the targets the pattern matches
PatternMatches(pattern, trgt) ==
    CASE pattern = ".*" -> TRUE
      [] pattern = "[bc]" -> trgt \in {"b", "c"}
      [] pattern = "b+" -> trgt \in {"b", "bb", "bbb"}
      [] OTHER -> pattern = trgt

Rule(trgt, preqs, recipe, order_only) ==
    [target_template |-> trgt,
     prerequisite_templates |-> preqs,
     \* '' and None both are "no recipe" (Rule.__init__)
     recipe_template |-> recipe,
     order_only |-> order_only]

applies(rule, trgt) == PatternMatches(rule.target_template, trgt)

\* str.format of a prerequisite template
FormatPreq(template, trgt) ==
    CASE template = "{trgt}" -> trgt
      [] template = "b{trgt}" -> "b" \o trgt
      [] OTHER -> template

_make_preqs(rule, trgt) ==
    [i \in 1..Len(rule.prerequisite_templates) |->
        FormatPreq(rule.prerequisite_templates[i], trgt)]

\* str.format of a recipe template
_make_recipe(rule, trgt) ==
    CASE rule.recipe_template = "gen {trgt}" -> "gen " \o trgt
      [] rule.recipe_template = "alt {trgt}" -> "alt " \o trgt
      [] OTHER -> rule.recipe_template

(***************************************************************************)
(* Requirements.                                                           *)
(***************************************************************************)
FileReq(trgt) ==
    [cls |-> "FileReq", target |-> trgt, recipe |-> "", order_only |-> FALSE]

TaskReq(trgt, recipe, order_only) ==
    [cls |-> "TaskReq", target |-> trgt, recipe |-> recipe,
     order_only |-> order_only]

DummyReq(trgt) ==
    [cls |-> "DummyReq", target |-> trgt, recipe |-> "", order_only |-> FALSE]

NoReq == [cls |-> "None", target |-> "", recipe |-> "", order_only |-> FALSE]

make_task(rule, trgt) ==
    IF rule.recipe_template = ""
    THEN DummyReq(trgt)
    ELSE TaskReq(trgt, _make_recipe(rule, trgt), rule.order_only)

\* faulty variant of ReqKey: every requirement is identified by its target
ReqKey_ByTarget(req) == <<"target", req.target>>

\* __hash__ / __eq__: a TaskReq is identified by its recipe, every other
\* requirement by its target (recipe strings and target strings are disjoint)
ReqKey(req) ==
    IF req.cls = "TaskReq" THEN <<"recipe", req.recipe>>
                           ELSE <<"target", req.target>>

ReqEq(x, y) == ReqKey(x) = ReqKey(y)

\* faulty variant of hasRun: no requirement is taken to be runnable
hasRun_Never(req) == FALSE

hasRun(req) == req.cls \in {"TaskReq", "DummyReq"}

\* faulty variant of exists: every path is taken to hold a file
exists_Always(files, path) == TRUE

\* files: target -> modification time, 0 when no file exists at the path
exists(files, path) == files[path] # 0

last_update(req, files) ==
    CASE req.cls = "DummyReq" -> NaN
      [] req.cls = "TaskReq" /\ req.order_only /\ exists(files, req.target) -> 0
      [] OTHER -> IF exists(files, req.target) THEN files[req.target] ELSE NaN

(***************************************************************************)
(* Python sets and dicts of requirements: one member per __eq__ class,     *)
(* the object that came first is the one kept.                             *)
(***************************************************************************)
SetHas(S, x) == \E y \in S : ReqEq(y, x)

SetAdd(S, x) == IF SetHas(S, x) THEN S ELSE S \cup {x}

SetUnion2(A, B) == A \cup {b \in B : ~SetHas(A, b)}

\* faulty variant of SetMinus: nothing is taken out of the set
SetMinus_KeepAll(A, B) == A

SetMinus(A, B) == {x \in A : ~SetHas(B, x)}

\* a dict is a set of entries [key, val]
DictHas(D, k) == \E e \in D : ReqEq(e.key, k)

DictGet(D, k) == (CHOOSE e \in D : ReqEq(e.key, k)).val

\* D[k] = v: an equal key keeps the key object already stored
DictSet(D, k, v) ==
    IF DictHas(D, k)
    THEN {IF ReqEq(e.key, k) THEN [key |-> e.key, val |-> v] ELSE e : e \in D}
    ELSE D \cup {[key |-> k, val |-> v]}

RECURSIVE DictUpdate(_, _)
\* dict(list(A.items()) + list(B.items()))
DictUpdate(A, B) ==
    IF B = {} THEN A
    ELSE LET e == CHOOSE x \in B : TRUE
         IN DictUpdate(DictSet(A, e.key, e.val), B \ {e})

(***************************************************************************)
(* build_dep_graph                                                         *)
(***************************************************************************)
SeqMin(S) == CHOOSE i \in S : \A j \in S : i <= j

\* faulty variant of FirstApplying: the last rule that applies is taken
FirstApplying_Last(rules, trgt) ==
    LET idx == {i \in 1..Len(rules) : applies(rules[i], trgt)}
    IN IF idx = {} THEN 0 ELSE CHOOSE i \in idx : \A j \in idx : j <= i

\* the first rule of the list that applies, 0 when none does
FirstApplying(rules, trgt) ==
    LET idx == {i \in 1..Len(rules) : applies(rules[i], trgt)}
    IN IF idx = {} THEN 0 ELSE SeqMin(idx)

\* faulty variant of PopRule: the rule that applied stays in the list
PopRule_Keep(rules, i) == rules

\* faulty variant of PopRule: the first rule of the list is taken out
PopRule_First(rules, i) == Tail(rules)

\* rules.pop(i) on the private copy of the list
PopRule(rules, i) == SubSeq(rules, 1, i - 1) \o SubSeq(rules, i + 1, Len(rules))

\* faulty variant of CallerList: the call works on the list of its caller
CallerList_Aliased(passed, local) == local

\* rules = list(rules): the call works on a copy (local), the list that
\* the caller passed is after the call what it was before
CallerList(passed, local) == passed

DepError(kind, d) ==
    [status |-> kind, req |-> NoReq, graph |-> {}, tasks |-> {}, depth |-> d,
     rules |-> <<>>]

IntMax(x, y) == IF x >= y THEN x ELSE y

RECURSIVE build_dep_graph(_, _, _, _)
RECURSIVE ResolvePreqs(_, _, _, _, _, _)

\* the loop over preq_trgts: acc holds preq_tasks, trgt_graph and the depth;
\* rules is the list of the enclosing call, as the calls made so far left it
ResolvePreqs(preq_trgts, i, rules, files, d, acc) ==
    IF i > Len(preq_trgts) THEN [acc EXCEPT !.rules = rules]
    ELSE LET sub == build_dep_graph(preq_trgts[i], rules, files, d + 1)
         IN IF sub.status # "ok" THEN DepError(sub.status, sub.depth)
            ELSE ResolvePreqs(preq_trgts, i + 1, sub.rules, files, d,
                    [status |-> "ok", req |-> NoReq,
                     graph |-> DictUpdate(acc.graph, sub.graph),
                     tasks |-> SetAdd(acc.tasks, sub.req),
                     depth |-> IntMax(acc.depth, sub.depth),
                     rules |-> sub.rules])

\* d is the depth of this call (1 for the call made by make); the field
\* rules of the result is the list of the caller once the call has returned
build_dep_graph(trgt, rules, files, d) ==
    IF d > RecursionLimit THEN DepError("RecursionError", d)
    ELSE
    LET i == FirstApplying(rules, trgt)
    IN IF i = 0
       THEN IF exists(files, trgt)
            THEN [status |-> "ok", req |-> FileReq(trgt),
                  graph |-> {[key |-> FileReq(trgt), val |-> {}]},
                  tasks |-> {}, depth |-> d,
                  rules |-> CallerList(rules, rules)]
            ELSE DepError("ValueError", d)
       ELSE LET trgt_rule == rules[i]
                rest == PopRule(rules, i)
                trgt_task == make_task(trgt_rule, trgt)
                sub == ResolvePreqs(_make_preqs(trgt_rule, trgt), 1, rest,
                          files, d,
                          [status |-> "ok", req |-> NoReq, graph |-> {},
                           tasks |-> {}, depth |-> d, rules |-> rest])
            IN IF sub.status # "ok" THEN sub
               ELSE [status |-> "ok", req |-> trgt_task,
                     graph |-> DictSet(sub.graph, trgt_task, sub.tasks),
                     tasks |-> {}, depth |-> sub.depth,
                     rules |-> CallerList(rules, sub.rules)]

(***************************************************************************)
(* build_orders and merge_orders                                           *)
(***************************************************************************)
\* faulty variant of FloatLt: equal floats compare as less
FloatLt_OrEqual(x, y) == x # NaN /\ y # NaN /\ x <= y

\* comparisons of floats: false as soon as one side is nan
FloatLt(x, y) == x # NaN /\ y # NaN /\ x < y

RECURSIVE PyMaxFrom(_, _, _)
PyMaxFrom(times, i, m) ==
    IF i > Len(times) THEN m
    ELSE PyMaxFrom(times, i + 1, IF FloatLt(m, times[i]) THEN times[i] ELSE m)

\* max(list): the first item, replaced by every later item greater than it
PyMax(times) == PyMaxFrom(times, 2, times[1])

\* the sequences that list every member of S once (iteration orders of a set)
Perms(S) ==
    {p \in [1..Cardinality(S) -> S] :
        \A i, j \in 1..Cardinality(S) : p[i] = p[j] => i = j}

RECURSIVE IterOrdersOf(_)
\* one iteration order for the prerequisite set of every node of the graph
IterOrdersOf(entries) ==
    IF entries = {} THEN {<<>>}
    ELSE LET e == CHOOSE x \in entries : TRUE
         IN {(e.key :> p) @@ f :
                p \in Perms(e.val), f \in IterOrdersOf(entries \ {e})}

IterOrders(graph) == IterOrdersOf(graph)

RECURSIVE UnionAt(_, _, _)
\* set.union of the k-th sets of the lists j.. (set() past the end of a list)
UnionAt(lists, k, j) ==
    IF j > Len(lists) THEN {}
    ELSE SetUnion2(IF k <= Len(lists[j]) THEN lists[j][k] ELSE {},
                   UnionAt(lists, k, j + 1))

RECURSIVE MergeFrom(_, _, _, _)
MergeFrom(lists, k, n, returned_set) ==
    IF k > n THEN <<>>
    ELSE LET priority_set == SetMinus(UnionAt(lists, k, 1), returned_set)
             rest == MergeFrom(lists, k + 1, n,
                               SetUnion2(returned_set, priority_set))
         IN IF priority_set # {} THEN <<priority_set>> \o rest ELSE rest

RECURSIVE LongestLen(_, _)
LongestLen(lists, j) ==
    IF j > Len(lists) THEN 0
    ELSE IntMax(Len(lists[j]), LongestLen(lists, j + 1))

merge_orders(lists) == MergeFrom(lists, 1, LongestLen(lists, 1), {})

OrdersError(d) == [status |-> "RecursionError", orders |-> <<>>, time |-> NaN]

\* faulty variant of Decide: the node is scheduled whatever the timestamps
Decide_Always(req, last_req_update, last_graph_update, preq_orders_list) ==
    [status |-> "ok", orders |-> <<{req}>> \o preq_orders_list,
     time |-> last_graph_update]

\* what the node itself contributes once its prerequisites are merged
Decide(req, last_req_update, last_graph_update, preq_orders_list) ==
    IF FloatLt(last_graph_update, last_req_update)
    THEN [status |-> "ok", orders |-> <<{}>>, time |-> last_req_update]
    ELSE [status |-> "ok", orders |-> <<{req}>> \o preq_orders_list,
          time |-> last_graph_update]

RECURSIVE build_orders(_, _, _, _, _)
\* order gives the order in which each prerequisite set is iterated;
\* d is the depth of this call
build_orders(req, graph, files, order, d) ==
    IF d > RecursionLimit THEN OrdersError(d)
    ELSE
    LET last_req_update == last_update(req, files)
    IN IF ~DictHas(graph, req) \/ DictGet(graph, req) = {}
       THEN IF ~hasRun(req)
            THEN [status |-> "ok", orders |-> <<{}>>, time |-> last_req_update]
            ELSE IF last_req_update # NaN
            THEN [status |-> "ok", orders |-> <<{}>>, time |-> last_req_update]
            ELSE [status |-> "ok", orders |-> <<{req}>>, time |-> last_req_update]
       ELSE LET key == (CHOOSE e \in graph : ReqEq(e.key, req)).key
                seq == order[key]
                subs == [i \in 1..Len(seq) |->
                            build_orders(seq[i], graph, files, order, d + 1)]
            IN IF \E i \in 1..Len(seq) : subs[i].status # "ok"
               THEN OrdersError(d)
               ELSE Decide(req, last_req_update,
                           PyMax([i \in 1..Len(seq) |-> subs[i].time]),
                           merge_orders([i \in 1..Len(seq) |-> subs[i].orders]))

(***************************************************************************)
(* The state of one program that calls make.                               *)
(***************************************************************************)
VARIABLES
    rules,      \* the rule list handed to make
    trgt,       \* the target handed to make
    parallel,   \* kwargs of make
    execute,
    fs,         \* target path -> modification time, 0: no file
    bak,        \* target path -> modification time of its backup file, 0: none
    clock,      \* the time the next write stamps on a file
    call,       \* number of the current call of make
    pc,         \* "start", "resolved", "planned", "running", "returned", "raised"
    dep,        \* what build_dep_graph returned
    plan,       \* what build_orders returned
    iter,       \* node -> the order in which its prerequisite set iterates
    wave,       \* index in orders of the order set being run
    exc_event,  \* the Event run_orders creates
    tasks,      \* the run calls of the order set: [req, wave, st, pre]
    started,    \* history: requirements whose recipe this call has started
    dup,        \* history: a recipe was started a second time in this call
    failed,     \* history: the order sets of this call in which a recipe failed
    clean       \* history: no recipe failed in the calls that have returned

vars == <<rules, trgt, parallel, execute, fs, bak, clock, call, pc, dep, plan,
          iter, wave, exc_event, tasks, started, dup, failed, clean>>

NoDep == DepError("none", 0)

NoPlan == [status |-> "none", orders |-> <<>>, time |-> NaN]

\* the rule lists of the executions: a root with one or two prerequisites,
\* a second level, an optional rule for the shared leaf, whose recipe can be
\* the very recipe of the second level
RunRuleLists ==
    {<<Rule("a", pa, ra, FALSE), Rule("b", pb, "gen {trgt}", ob)>> \o rc :
        pa \in {<<"b">>, <<"b", "c">>},
        ra \in {"", "gen {trgt}"},
        pb \in {<<>>, <<"c">>},
        ob \in BOOLEAN,
        rc \in {<<>>} \cup {<<Rule("c", <<>>, r, FALSE)>> :
                               r \in {"gen {trgt}", "gen b"}}}

\* the rule lists of the planning runs: patterns that overlap, prerequisite
\* templates that re-match their own rule or close a cycle, recipes shared
\* by several targets, order-only rules
PlanRuleLists ==
    {<<Rule("a", pa, ra, FALSE), Rule(tb, pb, rb, ob)>> \o rc :
        pa \in {<<"b">>, <<"b", "c">>},
        ra \in {"", "gen {trgt}", "gen"},
        tb \in {"b", "[bc]"},
        pb \in {<<>>, <<"c">>, <<"{trgt}">>, <<"a">>},
        rb \in {"gen {trgt}", "gen"},
        ob \in BOOLEAN,
        rc \in {<<>>} \cup {<<Rule("c", <<>>, r, o)>> :
                               r \in {"gen {trgt}", "gen"}, o \in BOOLEAN}}

InitWith(lists) ==
    /\ rules \in lists
    /\ trgt \in Targets
    /\ parallel \in BOOLEAN
    /\ execute \in BOOLEAN
    /\ fs \in [Targets -> 0..MaxTime]
    /\ bak = [t \in Targets |-> 0]
    /\ clock = MaxTime + 1
    /\ call = 1
    /\ pc = "start"
    /\ dep = NoDep
    /\ plan = NoPlan
    /\ iter = <<>>
    /\ wave = 0
    /\ exc_event = FALSE
    /\ tasks = {}
    /\ started = {}
    /\ dup = FALSE
    /\ failed = {}
    /\ clean = TRUE

Init == InitWith(RunRuleLists)

(***************************************************************************)
(* make: build_dep_graph, build_orders, run_orders                         *)
(***************************************************************************)
Resolve ==
    /\ pc = "start"
    /\ dep' = build_dep_graph(trgt, rules, fs, 1)
    /\ pc' = IF dep'.status = "ok" THEN "resolved" ELSE "raised"
    \* the list handed to build_dep_graph, as the call leaves it
    /\ rules' = IF dep'.status = "ok" THEN dep'.rules ELSE rules
    /\ UNCHANGED <<trgt, parallel, execute, fs, bak, clock, call, plan,
                   iter, wave, exc_event, tasks, started, dup, failed, clean>>

\* the hashes of the requirements do not change while the program runs:
\* a prerequisite set that a later call builds again iterates as before
SameHashes(old, new) ==
    \A k \in DOMAIN old \cap DOMAIN new :
        (\A i \in 1..Len(old[k]) : \E j \in 1..Len(new[k]) : new[k][j] = old[k][i])
            /\ Len(old[k]) = Len(new[k])
        => new[k] = old[k]

\* faulty variant of AfterBuildOrders: make goes on whatever build_orders did
AfterBuildOrders_GoOn(p) == "planned"

\* where make is once build_orders has returned or raised
AfterBuildOrders(p) == IF p.status = "ok" THEN "planned" ELSE "raised"

Plan ==
    /\ pc = "resolved"
    /\ \E it \in IterOrders(dep.graph) :
          /\ SameHashes(iter, it)
          /\ iter' = it
          /\ plan' = build_orders(dep.req, dep.graph, fs, it, 1)
    /\ pc' = AfterBuildOrders(plan')
    /\ UNCHANGED <<rules, trgt, parallel, execute, fs, bak, clock, call, dep,
                   wave, exc_event, tasks, started, dup, failed, clean>>

\* the threads (or the calls, in series) of one order set, not yet started
WaveTasks(orders, w) ==
    {[req |-> r, wave |-> w, st |-> "ready", pre |-> 0] : r \in orders[w]}

BeginRun ==
    /\ pc = "planned"
    /\ pc' = "running"
    /\ exc_event' = FALSE
    /\ wave' = Len(plan.orders)
    /\ tasks' = WaveTasks(plan.orders, Len(plan.orders))
    /\ UNCHANGED <<rules, trgt, parallel, execute, fs, bak, clock, call, dep,
                   plan, iter, started, dup, failed, clean>>

\* faulty variant of RunsRecipe: execute is not looked at
RunsRecipe_Always(req) == req.cls = "TaskReq"

\* whether run starts a shell command
RunsRecipe(req) == execute /\ req.cls = "TaskReq"

\* TaskReq.run up to the start of the recipe: the target is backed up.
\* In series a call begins when the one before it has ended.
TaskBegin(t) ==
    /\ pc = "running"
    /\ t \in tasks
    /\ t.st = "ready"
    /\ parallel \/ \A u \in tasks : u.st # "running"
    /\ LET path == t.req.target
           original_exists == exists(fs, path)
       IN /\ tasks' = (tasks \ {t}) \cup
                        {[t EXCEPT !.st = "running",
                                   !.pre = IF RunsRecipe(t.req) THEN fs[path]
                                                               ELSE 0]}
          /\ IF RunsRecipe(t.req)
             THEN /\ started' = SetAdd(started, t.req)
                  /\ dup' = (dup \/ SetHas(started, t.req))
                  /\ IF original_exists
                     THEN /\ bak' = [bak EXCEPT ![path] = fs[path]]
                          /\ fs' = [fs EXCEPT ![path] = 0]
                     ELSE UNCHANGED <<fs, bak>>
             ELSE UNCHANGED <<started, dup, fs, bak>>
    /\ UNCHANGED <<rules, trgt, parallel, execute, clock, call, pc, dep, plan,
                   iter, wave, exc_event, failed, clean>>

\* faulty variant of RestoreOnFail: the output of a failed recipe is left in place
\* when there was nothing to back up
RestoreOnFail_KeepPartial(files, backups, path, original_exists) ==
    IF original_exists THEN [files EXCEPT ![path] = backups[path]] ELSE files

\* the target once the context manager has left on an error
RestoreOnFail(files, backups, path, original_exists) ==
    IF original_exists THEN [files EXCEPT ![path] = backups[path]]
    ELSE IF exists(files, path) THEN [files EXCEPT ![path] = 0]
    ELSE files

\* faulty variant of BackupAfter: the backup is left where it is
BackupAfter_Keep(backups, path, original_exists) == backups

\* the backup once the context manager has left (renamed back or removed)
BackupAfter(backups, path, original_exists) ==
    IF original_exists THEN [backups EXCEPT ![path] = 0] ELSE backups

\* the recipe of t ends; outcome is its exit status and whether it wrote
\* its target: "ok" (exit 0, target written), "fail" (nonzero, nothing
\* written), "partial" (nonzero, target written)
TaskEnd(t, outcome) ==
    /\ pc = "running"
    /\ t \in tasks
    /\ t.st = "running"
    /\ LET path == t.req.target
           original_exists == t.pre # 0
           written == IF outcome \in {"ok", "partial"}
                      THEN [fs EXCEPT ![path] = clock] ELSE fs
       IN IF ~RunsRecipe(t.req)
          THEN /\ outcome = "ok"
               /\ tasks' = (tasks \ {t}) \cup {[t EXCEPT !.st = "done"]}
               /\ UNCHANGED <<fs, bak, clock, failed, pc>>
          ELSE /\ clock' = IF outcome = "fail" THEN clock ELSE clock + 1
               /\ bak' = BackupAfter(bak, path, original_exists)
               /\ IF outcome = "ok"
                  THEN /\ fs' = written
                       /\ tasks' = (tasks \ {t}) \cup {[t EXCEPT !.st = "done"]}
                       /\ UNCHANGED <<failed, pc>>
                  ELSE /\ fs' = RestoreOnFail(written, bak, path, original_exists)
                       /\ tasks' = (tasks \ {t}) \cup {[t EXCEPT !.st = "failed"]}
                       /\ failed' = failed \cup {t.wave}
                       \* in series the CalledProcessError leaves run_orders
                       /\ pc' = IF parallel THEN pc ELSE "raised"
    /\ UNCHANGED <<rules, trgt, parallel, execute, call, dep, plan, iter, wave,
                   exc_event, started, dup, clean>>

\* faulty variant of AllJoined: the loop does not wait for the threads
AllJoined_NoWait(ts, w) == TRUE

\* every thread of the order set has been joined (every call has returned)
AllJoined(ts, w) == \A u \in ts : u.wave = w => u.st \in {"done", "failed"}

\* the end of one round of the loop of run_orders
Join ==
    /\ pc = "running"
    /\ AllJoined(tasks, wave)
    /\ IF exc_event
       THEN /\ pc' = "raised"
            /\ UNCHANGED <<wave, tasks>>
       ELSE IF wave > 1
       THEN /\ wave' = wave - 1
            /\ tasks' = {u \in tasks : u.st \notin {"done", "failed"}} \cup
                           WaveTasks(plan.orders, wave - 1)
            /\ UNCHANGED pc
       ELSE /\ pc' = "returned"
            /\ tasks' = {u \in tasks : u.st \notin {"done", "failed"}}
            /\ UNCHANGED wave
    /\ UNCHANGED <<rules, trgt, parallel, execute, fs, bak, clock, call, dep,
                   plan, iter, exc_event, started, dup, failed, clean>>

\* make has returned and is called again with the same arguments
MakeAgain ==
    /\ pc = "returned"
    /\ call < MaxCalls
    /\ call' = call + 1
    /\ pc' = "start"
    /\ dep' = NoDep
    /\ plan' = NoPlan
    /\ wave' = 0
    /\ tasks' = {}
    /\ started' = {}
    /\ dup' = FALSE
    /\ failed' = {}
    /\ clean' = (clean /\ failed = {})
    /\ UNCHANGED <<rules, trgt, parallel, execute, fs, bak, clock, iter,
                   exc_event>>

Outcomes == {"ok", "fail", "partial"}

Begin == \E t \in tasks : TaskBegin(t)

End == \E t \in tasks : \E outcome \in Outcomes : TaskEnd(t, outcome)

Next == Resolve \/ Plan \/ BeginRun \/ Begin \/ End \/ Join \/ MakeAgain

Spec == Init /\ [][Next]_vars

\* planning alone, over the wider family of rule lists
InitPlan == InitWith(PlanRuleLists) /\ ~parallel /\ execute

NextPlan == Resolve \/ Plan

SpecPlan == InitPlan /\ [][NextPlan]_vars

\* the aggregate scenario: all over x.out and y.out, each made from its .in
\* file; x.in is newer than x.out and y.in is older than y.out
ScenarioTargets == {"all", "x.out", "y.out", "x.in", "y.in"}

ScenarioRules ==
    <<Rule("all", <<"x.out", "y.out">>, "", FALSE),
      Rule("x.out", <<"x.in">>, "gen {trgt}", FALSE),
      Rule("y.out", <<"y.in">>, "gen {trgt}", FALSE)>>

InitScenario ==
    /\ rules = ScenarioRules
    /\ trgt = "all"
    /\ parallel \in BOOLEAN
    /\ execute \in BOOLEAN
    /\ fs \in {f \in [ScenarioTargets -> 0..MaxTime] :
                  /\ 0 < f["x.out"] /\ f["x.out"] < f["x.in"]
                  /\ 0 < f["y.in"] /\ f["y.in"] < f["y.out"]}
    /\ bak = [t \in ScenarioTargets |-> 0]
    /\ clock = MaxTime + 1
    /\ call = 1
    /\ pc = "start"
    /\ dep = NoDep
    /\ plan = NoPlan
    /\ iter = <<>>
    /\ wave = 0
    /\ exc_event = FALSE
    /\ tasks = {}
    /\ started = {}
    /\ dup = FALSE
    /\ failed = {}
    /\ clean = TRUE

SpecScenario == InitScenario /\ [][Next]_vars

\* a chain with a shared link: a over b and c, b over c, c over the file d
ChainTargets == {"a", "b", "c", "d"}

ChainRuleLists ==
    {<<Rule("a", <<"b", "c">>, ra, FALSE),
       Rule("b", <<"c">>, "gen {trgt}", ob),
       Rule("c", <<"d">>, "gen {trgt}", oc)>> :
        ra \in {"", "gen {trgt}"}, ob \in BOOLEAN, oc \in BOOLEAN}

InitChain ==
    /\ rules \in ChainRuleLists
    /\ trgt \in {"a", "b"}
    /\ parallel = FALSE
    /\ execute = TRUE
    /\ fs \in [ChainTargets -> 0..MaxTime]
    /\ bak = [t \in ChainTargets |-> 0]
    /\ clock = MaxTime + 1
    /\ call = 1
    /\ pc = "start"
    /\ dep = NoDep
    /\ plan = NoPlan
    /\ iter = <<>>
    /\ wave = 0
    /\ exc_event = FALSE
    /\ tasks = {}
    /\ started = {}
    /\ dup = FALSE
    /\ failed = {}
    /\ clean = TRUE

\* planning alone, over the chains
SpecChain == InitChain /\ [][NextPlan]_vars

\* a pattern rule whose prerequisite matches the pattern again: b over bb,
\* bb over bbb, and bb reached a second time below x and y
PatternTargets == {"a", "b", "bb", "bbb", "x", "y"}

PatternRuleLists ==
    {<<Rule("a", <<"b", "x">>, "gen {trgt}", FALSE),
       Rule("x", <<"y">>, "gen {trgt}", FALSE),
       Rule("y", <<"bb">>, "gen {trgt}", FALSE),
       Rule("b+", <<"b{trgt}">>, rb, FALSE)>> : rb \in {"", "gen {trgt}"}}

InitPattern ==
    /\ rules \in PatternRuleLists
    /\ trgt \in {"a", "b"}
    /\ parallel = FALSE
    /\ execute = TRUE
    /\ fs \in [PatternTargets -> 0..MaxTime]
    /\ bak = [t \in PatternTargets |-> 0]
    /\ clock = MaxTime + 1
    /\ call = 1
    /\ pc = "start"
    /\ dep = NoDep
    /\ plan = NoPlan
    /\ iter = <<>>
    /\ wave = 0
    /\ exc_event = FALSE
    /\ tasks = {}
    /\ started = {}
    /\ dup = FALSE
    /\ failed = {}
    /\ clean = TRUE

\* planning alone, over the pattern rule lists
SpecPattern == InitPattern /\ [][NextPlan]_vars

(***************************************************************************)
(* Properties.                                                             *)
(***************************************************************************)
Orders == plan.orders

Planned == plan.status = "ok"

\* the indices of the order sets in which req occurs
Places(req) == {i \in 1..Len(Orders) : SetHas(Orders[i], req)}

\* C1: in the orders list returned by build_orders, a requirement and a
\* direct prerequisite of it that both occur in the list are in different
\* sets, the prerequisite in one further down the list (run earlier).
C1_PrereqFurtherDown ==
    Planned =>
        \A e \in dep.graph : \A p \in e.val :
            \A i \in Places(e.key) : \A j \in Places(p) : j > i

\* C2: in one call of make no recipe is started twice, and every requirement
\* occurs in at most one set of the orders list.
C2_StartedAtMostOnce ==
    /\ ~dup
    /\ Planned => \A e \in dep.graph : Cardinality(Places(e.key)) <= 1

\* the number of nodes that have req as a direct prerequisite
Dependents(req) == {e \in dep.graph : SetHas(e.val, req)}

\* C2 witness: a call has returned after it ran the recipe of a task that
\* two nodes of the graph have as a prerequisite.
C2_Witness ==
    /\ pc = "returned"
    /\ \E r \in started : Cardinality(Dependents(r)) >= 2

\* C3: once a recipe of an order set has failed, no run call of an order set
\* that comes later in the execution is started.
C3_NoStartAfterFailure ==
    \A t \in tasks : t.st # "ready" => \A w \in failed : w <= t.wave

\* C4: a call of make in which a recipe failed does not return normally,
\* and in parallel mode it raises only when the threads of the failing
\* order set are joined.
C4_FailureRaises ==
    /\ pc = "returned" => failed = {}
    /\ (pc = "raised" /\ parallel /\ failed # {}) =>
           \A t \in tasks : t.st \in {"done", "failed"}

\* C5: no run call of an order set has started while a run call of another
\* order set is still running.
C5_WaveBarrier ==
    \A t, u \in tasks : (t.st = "running" /\ u.st # "ready") => u.wave = t.wave

\* C5 witness: in parallel mode a thread of the second order set to be
\* executed runs, after an order set of two threads.
C5_Witness ==
    /\ parallel
    /\ Planned
    /\ \E t \in tasks :
          /\ t.st = "running"
          /\ t.wave < Len(Orders)
          /\ Cardinality(Orders[t.wave + 1]) = 2

\* t is a run call whose recipe is running and ends with a failure in this step
FailsNow(t) ==
    /\ t \in tasks
    /\ t.st = "running"
    /\ RunsRecipe(t.req)
    /\ [t EXCEPT !.st = "failed"] \in tasks'

\* C6: when TaskReq.run ends because its recipe failed, the target is as it
\* was before the run: the file that was there is there again, and no file
\* is there when there was none.
C6_FailureRestoresTarget ==
    [][\A t \in tasks : FailsNow(t) => fs'[t.req.target] = t.pre]_vars

\* C6 witness: a recipe has failed whose target existed before the run, and
\* the target is the file it was.
C6_Witness ==
    \E t \in tasks :
        /\ t.st = "failed"
        /\ t.pre # 0
        /\ fs[t.req.target] = t.pre
        /\ bak[t.req.target] = 0

\* the entries of the graph whose keys are the direct prerequisites of e
Succ(graph, e) == {f \in graph : SetHas(e.val, f.key)}

RECURSIVE Closure(_, _, _)
\* the entries reached from the entries S in at most n more steps
Closure(graph, S, n) ==
    IF n = 0 THEN S
    ELSE Closure(graph, S \cup UNION {Succ(graph, f) : f \in S}, n - 1)

\* the entries reachable from e by one step or more
Descendants(graph, e) == Closure(graph, Succ(graph, e), Cardinality(graph))

GraphAcyclic(graph) == \A e \in graph : e \notin Descendants(graph, e)

\* the prerequisites the rule list gives a target: those of the first rule
\* that applies
RulePreqs(t) ==
    LET i == FirstApplying(rules, t)
    IN IF i = 0 THEN {}
       ELSE {_make_preqs(rules[i], t)[k] :
                k \in 1..Len(rules[i].prerequisite_templates)}

RECURSIVE RuleClosure(_, _)
RuleClosure(S, n) ==
    IF n = 0 THEN S
    ELSE RuleClosure(S \cup UNION {RulePreqs(t) : t \in S}, n - 1)

\* no target is a prerequisite of itself, directly or through other targets
RulesAcyclic ==
    \A t \in Targets : t \notin RuleClosure(RulePreqs(t), Cardinality(Targets))

Resolved == dep.status = "ok"

\* C7: the graph build_dep_graph returns for a rule list without a cycle has
\* no node that is reachable from itself, also when several targets
\* instantiate to the same recipe.
C7_GraphAcyclic ==
    (Resolved /\ RulesAcyclic) => GraphAcyclic(dep.graph)

\* C8: build_dep_graph ends for every rule list, with a graph or with the
\* error of a target that cannot be resolved, and its calls are nested at
\* most one deeper than the number of rules.
C8_ResolveTerminates ==
    dep.status # "none" =>
        /\ dep.status \in {"ok", "ValueError"}
        /\ dep.depth <= Len(rules) + 1

\* C8 witness: a rule list with a cycle has been resolved by calls nested
\* one deeper than the number of rules.
C8_Witness ==
    /\ Resolved
    /\ ~RulesAcyclic
    /\ dep.depth = Len(rules) + 1

\* C9: a call of make that follows calls that returned without a failed
\* recipe starts no recipe.
C9_SecondCallStartsNothing ==
    (call > 1 /\ clean) => started = {}

\* the modification time of the target of req, NaN when it has none
OwnTime(req) ==
    IF req.cls # "DummyReq" /\ exists(fs, req.target) THEN fs[req.target]
                                                      ELSE NaN

\* the requirements of the graph: the root, the keys, the prerequisites
Nodes == {dep.req} \cup {e.key : e \in dep.graph} \cup UNION {e.val : e \in dep.graph}

\* the target of every requirement exists and the modification time of each
\* prerequisite is older than the one of the requirement that depends on it
UpToDate ==
    /\ \A n \in Nodes : OwnTime(n) # NaN
    /\ \A e \in dep.graph : \A n \in Nodes : \A p \in e.val :
          ReqEq(n, e.key) => FloatLt(OwnTime(p), OwnTime(n))

\* C10: for a target that is up to date, with every prerequisite older
\* than the target that depends on it, build_orders returns only empty
\* sets.
C10_UpToDateEmptyPlan ==
    (Planned /\ UpToDate) => \A i \in 1..Len(Orders) : Orders[i] = {}

\* the recipe the rule list gives a target: the one of the first rule that
\* applies, "" when there is none
MadeRecipe(t) ==
    LET i == FirstApplying(rules, t)
    IN IF i = 0 THEN "" ELSE _make_recipe(rules[i], t)

\* the targets the rule list reaches from the target handed to make
Reach == {trgt} \cup RuleClosure(RulePreqs(trgt), Cardinality(Targets))

\* the tasks of S are told apart by their recipes
OnePerRecipe(S) ==
    \A r, s \in S :
        (r.cls = "TaskReq" /\ s.cls = "TaskReq" /\ r.recipe = s.recipe) => r = s

\* C11: the graph holds one node for each recipe string, also when several
\* targets instantiate to it, and one call of make does not start a recipe
\* string twice.
C11_Dedup ==
    /\ Resolved =>
          /\ OnePerRecipe({e.key : e \in dep.graph})
          /\ \A e \in dep.graph : OnePerRecipe(e.val)
    /\ OnePerRecipe(started)
    /\ ~dup

\* C11 witness: make has returned after it ran, once, a recipe that two
\* targets reached from the root instantiate to.
C11_Witness ==
    /\ pc = "returned"
    /\ \E t, u \in Reach :
          /\ t # u
          /\ MadeRecipe(t) = MadeRecipe(u)
          /\ \E r \in started : r.recipe = MadeRecipe(t)

\* p is a task of an order-only rule whose target exists
OrderOnlyExists(p) ==
    p.cls = "TaskReq" /\ p.order_only /\ exists(fs, p.target)

\* the graph and the iteration orders once p is no prerequisite of key
WithoutPreq(graph, key, p) ==
    {IF e.key = key THEN [e EXCEPT !.val = e.val \ {p}] ELSE e : e \in graph}

IterWithoutPreq(order, key, p) ==
    [k \in DOMAIN order |->
        IF k = key THEN SelectSeq(order[k], LAMBDA x : x # p) ELSE order[k]]

\* build_orders, called on req, puts req itself in the plan
Scheduled(req, graph, order) ==
    LET r == build_orders(req, graph, fs, order, 1)
    IN r.status = "ok" /\ SetHas(r.orders[1], req)

\* C12: a prerequisite made by an order-only rule whose target exists does
\* not force its dependent into the plan: a dependent that is scheduled is
\* scheduled also when that prerequisite is taken out of its prerequisite
\* set, whether or not the order-only rule has prerequisites of its own.
C12_OrderOnlyNeverForces ==
    Planned =>
        \A e \in dep.graph : \A p \in e.val :
            (OrderOnlyExists(p) /\ Scheduled(e.key, dep.graph, iter)) =>
                Scheduled(e.key, WithoutPreq(dep.graph, e.key, p),
                          IterWithoutPreq(iter, e.key, p))

\* p is a task of an order-only rule whose target does not exist
OrderOnlyMissing(p) ==
    p.cls = "TaskReq" /\ p.order_only /\ ~exists(fs, p.target)

\* C13: a task of an order-only rule that the root reaches and whose target
\* does not exist is in the plan build_orders returns, and a call of make
\* that returns has started its recipe.
C13_OrderOnlyMissingRuns ==
    \A n \in Nodes :
        /\ (pc = "planned" /\ OrderOnlyMissing(n)) => Places(n) # {}
        /\ (pc = "returned" /\ execute /\ failed = {} /\ n.cls = "TaskReq"
               /\ n.order_only /\ ~exists(fs, n.target)) => SetHas(started, n)

\* C14: in the aggregate scenario the first call of make starts no recipe
\* but the one of x.out, which it has started when it returns without a
\* failure; y.out is never written and all starts no recipe.
C14_OnlyStaleBranchRuns ==
    /\ call = 1 => \A r \in started : r = TaskReq("x.out", "gen x.out", FALSE)
    /\ (call = 1 /\ pc = "returned" /\ execute) =>
           started = {TaskReq("x.out", "gen x.out", FALSE)}
    /\ fs["y.out"] <= MaxTime /\ bak["y.out"] = 0

\* C14 witness: the first call has returned, x.out is rebuilt and newer than
\* x.in, y.out is the file it was.
C14_Witness ==
    /\ call = 1 /\ pc = "returned" /\ execute /\ failed = {}
    /\ SetHas(Orders[1], DummyReq("all"))
    /\ fs["x.out"] > fs["x.in"]
    /\ fs["y.out"] <= MaxTime

\* the root is the task of a rule with a recipe and without prerequisites
LeafTaskRoot ==
    /\ Resolved
    /\ dep.req.cls = "TaskReq"
    /\ DictGet(dep.graph, dep.req) = {}

\* C15 as stated: a requested task without prerequisites is in the plan for
\* every state of the filesystem, also when a file exists at its target.
C15_LeafTaskAlwaysRuns ==
    (pc = "planned" /\ LeafTaskRoot) => SetHas(Orders[1], dep.req)

\* C15 amended: a requested task without prerequisites is in the plan if and
\* only if no file exists at its target, and a call of make that returns has
\* started exactly the recipes of the plan.
C15_LeafTaskRunsIffMissing ==
    /\ (pc = "planned" /\ LeafTaskRoot) =>
           (SetHas(Orders[1], dep.req) <=> ~exists(fs, trgt))
    /\ (pc = "returned" /\ execute /\ LeafTaskRoot) => started = Orders[1]

\* C15 witness: make has returned after it ran the recipe of a requested
\* task without prerequisites whose target did not exist.
C15_Witness ==
    /\ pc = "returned" /\ execute /\ LeafTaskRoot
    /\ started = {dep.req}
    /\ dep.req.recipe = "gen " \o trgt

\* i is the place in rs of a rule that applies to t, and no rule before it does
IsFirstMatch(rs, i, t) ==
    /\ i \in 1..Len(rs)
    /\ applies(rs[i], t)
    /\ \A j \in 1..(i - 1) : ~applies(rs[j], t)

\* what the declaration order of rs makes of t: the task of the first rule
\* that applies, the file when no rule applies
MadeByFirstMatch(rs, t) ==
    IF \E i \in 1..Len(rs) : applies(rs[i], t)
    THEN {make_task(rs[i], t) : i \in {j \in 1..Len(rs) : IsFirstMatch(rs, j, t)}}
    ELSE {FileReq(t)}

\* C16: the root is made by the first rule of the list that applies to the
\* target, and each of its prerequisites by the first rule that applies
\* among the rules left once the rule of the root is taken out (as a member
\* of the prerequisite set, that is up to the identity of requirements).
C16_FirstMatchWins ==
    Resolved =>
        /\ MadeByFirstMatch(rules, trgt) = {dep.req}
        /\ \A i \in 1..Len(rules) :
              IsFirstMatch(rules, i, trgt) =>
                  \A k \in 1..Len(rules[i].prerequisite_templates) :
                      \A q \in MadeByFirstMatch(PopRule(rules, i),
                                                _make_preqs(rules[i], trgt)[k]) :
                          SetHas(DictGet(dep.graph, dep.req), q)

\* C16 witness: two rules apply to the target and make different tasks of
\* it; the graph is resolved with the task of the first.
C16_Witness ==
    /\ Resolved
    /\ \E i, j \in 1..Len(rules) :
          /\ i < j
          /\ applies(rules[i], trgt) /\ applies(rules[j], trgt)
          /\ make_task(rules[i], trgt) # make_task(rules[j], trgt)
          /\ dep.req = make_task(rules[i], trgt)

\* C17: a target to which no rule applies resolves to a FileReq leaf whose
\* prerequisite set is empty when a file exists at its path and to an error
\* otherwise; after the error make holds no graph and no plan and has
\* started nothing.
C17_UnresolvableTarget ==
    /\ (dep.status # "none" /\ FirstApplying(rules, trgt) = 0) =>
           IF fs[trgt] # 0
           THEN /\ dep.status = "ok"
                /\ dep.req = FileReq(trgt)
                /\ dep.graph = {[key |-> FileReq(trgt), val |-> {}]}
           ELSE dep.status = "ValueError"
    /\ (pc \in {"resolved", "planned"} /\ Resolved) =>
           \A n \in Nodes : n.cls = "FileReq" => fs[n.target] # 0
    /\ dep.status = "ValueError" =>
           /\ pc = "raised"
           /\ \E t \in Targets : fs[t] = 0
           /\ dep.graph = {} /\ plan = NoPlan
           /\ started = {} /\ tasks = {}

\* C17 witness: make has raised because a prerequisite of the root, to which
\* no rule applies, is not a file.
C17_Witness ==
    /\ pc = "raised"
    /\ dep.status = "ValueError"
    /\ dep.depth >= 2
    /\ \E t \in RulePreqs(trgt) : FirstApplying(rules, t) = 0 /\ fs[t] = 0

BuildFailed(d, p) ==
    d.status \in {"ValueError", "RecursionError"} \/ p.status = "RecursionError"

\* C18: a step that starts a recipe or changes a target or a backup is taken
\* only after build_dep_graph and build_orders have both returned, and a
\* call in which one of them raises ends there, with no recipe started and
\* no target changed.
C18_PlanBeforeRun ==
    [][/\ ((started' # started /\ started' # {}) \/ fs' # fs \/ bak' # bak
              \/ tasks' # {}) =>
            (Resolved /\ Planned /\ pc \in {"planned", "running"})
       /\ BuildFailed(dep', plan') =>
            (pc' = "raised" /\ started' = {} /\ tasks' = {} /\ fs' = fs)]_vars

\* C18 witness: build_orders has raised in a call of make for which a target
\* is missing; nothing was started.
C18_Witness ==
    /\ pc = "raised"
    /\ dep.status = "ok"
    /\ plan.status = "RecursionError"
    /\ fs[trgt] = 0
    /\ started = {}

\* C19: with execute=False no step of make starts a recipe, makes or
\* removes a backup, or changes the existence or the modification time of
\* a target.
C19_DryRunChangesNothing ==
    [][~execute =>
          (fs' = fs /\ bak' = bak /\ clock' = clock /\ started' = {})]_vars

\* C19 witness: a dry run has returned whose plan holds the task of a
\* target that does not exist.
C19_Witness ==
    /\ ~execute
    /\ pc = "returned"
    /\ \E i \in 1..Len(Orders) : \E r \in Orders[i] :
          r.cls = "TaskReq" /\ fs[r.target] = 0

\* the timestamps build_orders gets back for the prerequisites of the node
\* stored under key, in the order in which it iterates them
PreqUpdateTimes(key) ==
    [i \in 1..Len(iter[key]) |->
        build_orders(iter[key][i], dep.graph, fs, iter, 1).time]

\* C20: a node for which the timestamp returned for one of its direct
\* prerequisites is NaN has NaN as its latest-prerequisite timestamp,
\* whatever the iteration order, and is scheduled.
C20_NaNPropagates ==
    (pc = "planned") =>
        \A e \in dep.graph :
            (\E i \in 1..Len(iter[e.key]) : PreqUpdateTimes(e.key)[i] = NaN) =>
                /\ PyMax(PreqUpdateTimes(e.key)) = NaN
                /\ Scheduled(e.key, dep.graph, iter)

\* C21: when a requirement is in the plan, every requirement of the graph
\* that has it as a direct or transitive prerequisite is in the plan too.
C21_RebuildPropagatesUp ==
    (pc = "planned") =>
        \A e \in dep.graph : \A f \in Descendants(dep.graph, e) :
            Places(f.key) # {} => Places(e.key) # {}

\* the task stored under the entry e is stale: its target is missing, or a
\* prerequisite that is a file or the task of a rule that is not order-only
\* has a modification time that is not older than the one of its target
Stale(e) ==
    /\ e.key.cls = "TaskReq"
    /\ \/ fs[e.key.target] = 0
       \/ \E p \in e.val :
             /\ p.cls # "DummyReq" /\ ~p.order_only
             /\ fs[p.target] # 0
             /\ fs[p.target] >= fs[e.key.target]

\* C22: every stale task of the graph is in the plan, whatever the
\* timestamps of the requirements that depend on it.
C22_StaleTaskScheduled ==
    (pc = "planned") => \A e \in dep.graph : Stale(e) => Places(e.key) # {}

\* the latest prerequisite timestamp of the node stored under key
LastGraphUpdate(key) == PyMax(PreqUpdateTimes(key))

\* C23: a node with prerequisites whose latest prerequisite timestamp is
\* equal to its own timestamp is scheduled, and a node with prerequisites is
\* left out only when the latest prerequisite timestamp is strictly older
\* than its own.
C23_TieIsStale ==
    (pc = "planned") =>
        \A e \in dep.graph :
            e.val # {} =>
                LET g == LastGraphUpdate(e.key)
                    own == last_update(e.key, fs)
                    sched == Scheduled(e.key, dep.graph, iter)
                IN /\ (g # NaN /\ g = own) => sched
                   /\ ~sched => (g # NaN /\ own # NaN /\ g < own)

\* C23 witness: a task whose target has the modification time of its newest
\* prerequisite is in the plan.
C23_Witness ==
    /\ pc = "planned"
    /\ \E e \in dep.graph :
          /\ e.val # {}
          /\ e.key.cls = "TaskReq" /\ ~e.key.order_only
          /\ fs[e.key.target] # 0
          /\ LastGraphUpdate(e.key) = fs[e.key.target]
          /\ Places(e.key) # {}

(***************************************************************************)
(* C24                                                                     *)
(***************************************************************************)
\* the list without its i-th rule
WithoutRule(rs, i) == [k \in 1..(Len(rs) - 1) |-> IF k < i THEN rs[k] ELSE rs[k + 1]]

\* what each prerequisite of the rule applied to the root resolves to when
\* it is given every rule but that one, whatever its siblings used
SiblingGraphs ==
    LET i == FirstApplying(rules, trgt)
        preq_trgts == _make_preqs(rules[i], trgt)
    IN [k \in 1..Len(preq_trgts) |->
            build_dep_graph(preq_trgts[k], WithoutRule(rules, i), fs, 2)]

\* C24: the rule applied to a target is not available to the prerequisites
\* of that target, and stays available to each sibling branch: the graph of
\* the root is the rule's task over the graphs that its prerequisites get
\* from the list without that one rule, each sibling from the same list
C24_RuleOncePerChain ==
    ((pc \in {"resolved", "planned"} \/ (pc = "raised" /\ dep.status \notin {"ok", "none"}))
        /\ FirstApplying(rules, trgt) # 0) =>
    LET subs == SiblingGraphs
        bad == {k \in DOMAIN subs : subs[k].status # "ok"}
    IN IF bad # {}
       THEN dep.status = subs[SeqMin(bad)].status
       ELSE /\ dep.status = "ok"
            /\ dep.req = make_task(rules[FirstApplying(rules, trgt)], trgt)
            /\ \A k \in DOMAIN subs :
                  /\ SetHas(DictGet(dep.graph, dep.req), subs[k].req)
                  /\ \A f \in subs[k].graph : DictHas(dep.graph, f.key)
            /\ \A p \in DictGet(dep.graph, dep.req) :
                  \E k \in DOMAIN subs : ReqEq(p, subs[k].req)
            /\ \A f \in dep.graph :
                  \/ ReqEq(f.key, dep.req)
                  \/ \E k \in DOMAIN subs : DictHas(subs[k].graph, f.key)

\* one pattern rule made both siblings b and c of the root a, and was not
\* applied again to its own prerequisite, which is the file of the same path
C24_Witness ==
    /\ pc = "resolved" /\ trgt = "a" /\ Len(rules) >= 2
    /\ applies(rules[2], "b") /\ applies(rules[2], "c")
    /\ _make_preqs(rules[2], "b") = <<"b">>
    /\ \E e1 \in dep.graph, e2 \in dep.graph :
          /\ e1.key = make_task(rules[2], "b") /\ e1.val = {FileReq("b")}
          /\ e2.key = make_task(rules[2], "c") /\ e2.val = {FileReq("c")}
          /\ ~ReqEq(e1.key, e2.key)
          /\ SetHas(DictGet(dep.graph, dep.req), e1.key)
          /\ SetHas(DictGet(dep.graph, dep.req), e2.key)

(***************************************************************************)
(* C25                                                                     *)
(***************************************************************************)
\* the list that the call for the root works on once the first n
\* prerequisites of the root have been resolved one after the other
ListLeftBy(n) ==
    LET i == FirstApplying(rules, trgt)
        rest == WithoutRule(rules, i)
    IN ResolvePreqs(SubSeq(_make_preqs(rules[i], trgt), 1, n), 1, rest, fs, 1,
          [status |-> "ok", req |-> NoReq, graph |-> {}, tasks |-> {},
           depth |-> 1, rules |-> rest])

\* every prerequisite of the root resolves after its earlier siblings to
\* what it resolves to when it is the first one resolved
SiblingIndependent ==
    FirstApplying(rules, trgt) # 0 =>
        \A k \in DOMAIN SiblingGraphs :
            ListLeftBy(k - 1).status = "ok" =>
                build_dep_graph(_make_preqs(rules[FirstApplying(rules, trgt)], trgt)[k],
                                ListLeftBy(k - 1).rules, fs, 2) = SiblingGraphs[k]

\* C25: build_dep_graph leaves the list of its caller as it was, same rules
\* in the same order, and so a prerequisite resolves to the same node and
\* sub-graph whatever siblings were resolved before it
C25_CallerListUnchanged ==
    /\ [][rules' = rules]_vars
    /\ [](pc = "resolved" => SiblingIndependent)

\* the root was resolved by a rule with two prerequisites, each of them
\* made by a rule of its own that its call took out of its copy of the list
C25_Witness ==
    /\ pc = "resolved" /\ Len(rules) = 3
    /\ FirstApplying(rules, trgt) # 0
    /\ Len(_make_preqs(rules[FirstApplying(rules, trgt)], trgt)) = 2
    /\ \A k \in DOMAIN SiblingGraphs :
          /\ SiblingGraphs[k].status = "ok"
          /\ SiblingGraphs[k].req.cls = "TaskReq"
    /\ ~ReqEq(SiblingGraphs[1].req, SiblingGraphs[2].req)

(***************************************************************************)
(* C26                                                                     *)
(***************************************************************************)
\* C26: the graph returned by build_dep_graph never holds two distinct
\* nodes with the same target: nodes of one target are equal requirements
\* of one class
C26_TargetUnique ==
    (pc = "resolved") =>
        \A n1 \in Nodes, n2 \in Nodes :
            n1.target = n2.target => (ReqEq(n1, n2) /\ n1.cls = n2.cls)

(***************************************************************************)
(* C27                                                                     *)
(***************************************************************************)
\* the step in which the run of t, started with execute=True, ends with st
RunEnds(t, st) ==
    /\ t \in tasks /\ t.st = "running"
    /\ execute /\ t.req.cls = "TaskReq"
    /\ [t EXCEPT !.st = st] \in tasks'

\* C27: when TaskReq.run with execute=True has ended no backup of its
\* target remains: after a success the target is the one just produced,
\* after a failure the target is the file that had been backed up
C27_NoBackupRemains ==
    [][\A t \in tasks :
          /\ RunEnds(t, "done") =>
                /\ bak'[t.req.target] = 0
                /\ fs'[t.req.target] = clock
          /\ RunEnds(t, "failed") =>
                /\ bak'[t.req.target] = 0
                /\ t.pre # 0 => fs'[t.req.target] = t.pre]_vars

\* a run whose target existed has failed after it wrote the target anew:
\* the backup is gone and the target is the file that was there before
C27_Witness ==
    /\ execute
    /\ \E t \in tasks :
          /\ t.req.cls = "TaskReq" /\ t.pre # 0
          /\ bak[t.req.target] = 0
          /\ t.st = "failed" /\ fs[t.req.target] = t.pre
          /\ clock > MaxTime + 1

(***************************************************************************)
(* C28                                                                     *)
(***************************************************************************)
\* C28: build_orders terminates on every root and graph that build_dep_graph
\* returns: its recursion ends by itself, within the number of nodes of the
\* graph, and never by running out of stack
C28_BuildOrdersTerminates ==
    (dep.status = "ok" /\ plan.status # "none") => plan.status = "ok"

(***************************************************************************)
(* C29                                                                     *)
(***************************************************************************)
\* C29: every member of every order set of the plan is a TaskReq or a
\* DummyReq, never a FileReq, and the plan is either the single empty order
\* set or a list whose first order set holds the root and nothing else
C29_PlanRunnable ==
    (pc = "planned") =>
        /\ \A w \in DOMAIN plan.orders : \A r \in plan.orders[w] :
              r.cls \in {"TaskReq", "DummyReq"}
        /\ \/ plan.orders = <<{}>>
           \/ /\ Len(plan.orders) >= 1
              /\ plan.orders[1] # {}
              /\ \A r \in plan.orders[1] : ReqEq(r, dep.req)

====
